---------------------------- MODULE Spec2Model ----------------------------
(***************************************************************************)
(* Model of pms5003_async: the PMS5003Serial reader (frame start scan,     *)
(* frame parsing) and its read() async generator (warmup, dedupe), reading *)
(* from a byte source fed by the sensor, with a clock.                     *)
(*                                                                         *)
(* The repository holds the class PMS5003Serial twice: in serial.py (used  *)
(* by main.py) and in __init__.py.  The two differ in _parse only; the     *)
(* variable `module` says which of the two classes was constructed.        *)
(***************************************************************************)
EXTENDS Integers, Sequences, FiniteSets, TLC

\* ------------------------------------------------------------------ bounds

\* Chunks (frames or noise bytes) the sensor writes in one run.
MaxChunks == 3
\* Frames each sensor writes when two streams run side by side.
MaxPairFrames == 1
\* Frames the sensor writes in one run of frames only.
MaxFrames == 6
\* Chunks the sensor writes in a run over a source with a read timeout.
MaxShortChunks == 2
\* Chunks the sensor writes in a run over marker bytes and frames.
MaxSyncChunks == 5
\* Frames the sensor writes in a run in which it writes ahead of the reader.
MaxAheadFrames == 3
\* Largest value the clock reaches.
MaxClock == 1
\* Largest warmup argument tried (0 .. MaxWarmup).
MaxWarmup == 1

\* --------------------------------------------------------------- constants

FRAME_LENGTH == 28

START_SEQUENCE == <<66, 77, 0, 28>>

\* Number of fields of the dataclass PMS5003Measurement.
NumFields == 13

\* The value None.
None == [kind |-> "None"]

\* ------------------------------------------------------------ byte helpers

RECURSIVE Sum(_)
\* Python's sum() over a bytes object: an unbounded integer, no modulus.
Sum(s) == IF s = <<>> THEN 0 ELSE Head(s) + Sum(Tail(s))

\* struct.unpack(">HHHHHHHHHHHHHH", frame): 14 big-endian unsigned 16-bit words.
Unpack(frame) == [i \in 1..(Len(frame) \div 2) |-> frame[2 * i - 1] * 256 + frame[2 * i]]

RECURSIVE Pack(_)
\* The wire encoding of a sequence of 16-bit words, big-endian.
Pack(ws) == IF ws = <<>> THEN <<>> ELSE <<Head(ws) \div 256, Head(ws) % 256>> \o Pack(Tail(ws))

\* The 28 bytes after the marker of the frame carrying the 13 fields fs and
\* the declared checksum ck.
PayloadOf(fs, ck) == Pack(fs) \o Pack(<<ck>>)

\* The checksum the sensor declares: the sum of bytes 0-29 of the frame.
WireChecksum(fs) == (Sum(START_SEQUENCE) + Sum(Pack(fs))) % 65536

\* A whole valid 32-byte frame.
FrameOf(fs) == START_SEQUENCE \o PayloadOf(fs, WireChecksum(fs))

\* A 32-byte frame whose declared checksum is off by one.
BadFrameOf(fs) == START_SEQUENCE \o PayloadOf(fs, (WireChecksum(fs) + 1) % 65536)


\* ------------------------------------------------------------- measurement

\* A value read() handles: a PMS5003Measurement (structural equality on its
\* 13 fields), a DataError instance (equal to itself only: `id` tells
\* instances apart), or the outcome of a constructor call that raised.
Item(kind, fields, id) == [kind |-> kind, fields |-> fields, id |-> id]

\* PMS5003Measurement(*args): the dataclass has 13 fields without defaults,
\* so any other number of positional arguments raises TypeError.
NewMeasurement(args) ==
    IF Len(args) = NumFields
    THEN Item("Measurement", args, 0)
    ELSE Item("TypeError", <<>>, 0)

\* ------------------------------------------------------------------ _parse

\* Mutant: the comparison looks at the low byte of the checksum only.
ChecksumOkLowByte(frame) ==
    Sum(START_SEQUENCE \o SubSeq(frame, 1, Len(frame) - 2)) % 256 = frame[Len(frame)]

\* actual_checksum != expected_checksum, negated.
ChecksumOk(frame) ==
    Sum(START_SEQUENCE \o SubSeq(frame, 1, Len(frame) - 2)) = Unpack(frame)[14]

\* The slice of the unpacked words handed to the constructor:
\* unpacked[:-2] in serial.py, unpacked[:-1] in __init__.py.
ConstructorArgs(mod, unpacked) ==
    IF mod = "serial"
    THEN SubSeq(unpacked, 1, Len(unpacked) - 2)
    ELSE SubSeq(unpacked, 1, Len(unpacked) - 1)

\* _parse(frame); id is the identity of the DataError instance it may create.
Parse(mod, frame, id) ==
    IF ~ChecksumOk(frame)
    THEN Item("DataError", <<>>, id)
    ELSE NewMeasurement(ConstructorArgs(mod, Unpack(frame)))

\* ------------------------------------------------------- read()'s conditions

\* Mutant: the two length bytes of the marker are not compared.
MatchesMagicOnly(c, i) == i >= 2 \/ c = START_SEQUENCE[i + 1]

\* c != expected, negated, for the marker byte at loop position i (0-based).
Matches(c, i) == c = START_SEQUENCE[i + 1]

\* Mutant: the warmup loop ends one clock unit early.
InWarmupEarly(t, deadline) == t + 1 < deadline

\* Mutant: the warmup loop goes on while the deadline is not passed.
InWarmupInclusive(t, deadline) == t <= deadline

\* The loop condition of the warmup loop.
InWarmup(t, deadline) == t < deadline

\* Mutant: the comparison looks at the pm_2_5 field only.
SuppressOnPm25(dd, current, prev) ==
    /\ dd
    /\ current.kind = "Measurement"
    /\ prev.kind = "Measurement"
    /\ current.fields[2] = prev.fields[2]

\* Mutant: the dedupe argument is ignored and equal neighbours are dropped.
SuppressAlways(dd, current, prev) == current = prev

\* Mutant: a missing previous measurement counts as a duplicate.
SuppressWhenNoPrevious(dd, current, prev) ==
    dd /\ (prev.kind = "None" \/ current = prev)

\* `if dedupe and current == previous: continue`
Suppress(dd, current, prev) == dd /\ current = prev

\* Mutant: the warmup loop does not record what it read.
WarmupPreviousKept(current, prev) == prev

\* `previous = current` in the warmup loop.
WarmupPrevious(current, prev) == current

\* Mutant: the read takes the data bytes and leaves the two checksum bytes
\* on the line.
RemainingWithChecksum(buf, n) == SubSeq(buf, n - 1, Len(buf))

\* What the line still holds after read_async(n) returned n bytes of buf.
Remaining(buf, n) == SubSeq(buf, n + 1, Len(buf))

\* Mutant: the clock is read after the payload read.
StampAtPayload(atMarker, atPayload) == atPayload

\* The timestamp try_read_one returns, given the clock reading it took after
\* _read_start returned and the clock when the payload read completed.
Stamp(atMarker, atPayload) == atMarker

\* Mutant: the yield comes before `previous = current` took effect on it.
YieldedPrevious(t, current, prev) == <<t, prev>>

\* What read() yields.
Yielded(t, current, prev) == <<t, current>>

\* Mutant: the exception is caught and the read tried again.
OnSourceErrorRetry == "seek"

\* Where an exception raised by read_async leaves the generator: nothing
\* catches it, so it ends the generator.
OnSourceError == "raised"

\* --------------------------------------------------------------- the sensor

\* The spec's end-to-end example, and a second reading that differs from it
\* in its first field and has a non-zero `reserved` with a non-zero high byte.
MA == <<10, 20, 30, 10, 20, 30, 100, 90, 80, 70, 60, 50, 0>>
MB == <<11, 20, 30, 10, 20, 30, 100, 90, 80, 70, 60, 50, 513>>

Measurements == {MA, MB}

\* Noise bytes: the first three marker bytes (so that noise can end in any
\* proper prefix of the marker).
NoiseBytes == {66, 77, 0}

Noise == {<<b>> : b \in NoiseBytes}

ValidFrames == {FrameOf(m) : m \in Measurements}

Chunks == ValidFrames \cup {BadFrameOf(MA)} \cup Noise

\* Single bytes, each of them one of the four marker bytes, and one frame:
\* the line can deliver any arrangement of marker bytes, whole markers too.
SyncChunks == {<<START_SEQUENCE[i]>> : i \in DOMAIN START_SEQUENCE} \cup {FrameOf(MA)}

\* Whole frames, with a right or a wrong checksum.
AheadFrames == ValidFrames \cup {BadFrameOf(MA)}

\* How many payload bytes arrive of a frame that is cut off.
ShortLengths == {0, 1, FRAME_LENGTH - 1}

\* The frame of MA cut off after the marker and k payload bytes.
TruncatedFrames ==
    {SubSeq(FrameOf(MA), 1, Len(START_SEQUENCE) + k) : k \in ShortLengths}

ShortChunks == ValidFrames \cup TruncatedFrames

\* Field values for frames that probe the checksum: the two readings, all
\* bytes zero and all bytes 0xFF (the largest byte sum a payload can have).
ProbeFields ==
    Measurements \cup {[i \in 1..NumFields |-> 0], [i \in 1..NumFields |-> 65535]}

\* Declared checksums for the fields fs: the right one, ones that differ
\* from it in the low byte only or in the high byte only, and the extremes.
ProbeChecksums(fs) ==
    {WireChecksum(fs), (WireChecksum(fs) + 1) % 65536,
     (WireChecksum(fs) + 256) % 65536, 0, 65535}

\* Frames with a marker and a payload of any of these fields and checksums.
ProbeFrames ==
    UNION {{START_SEQUENCE \o PayloadOf(fs, ck) : ck \in ProbeChecksums(fs)} :
           fs \in ProbeFields}

\* ------------------------------------------------------------------- state

VARIABLES
    module,       \* "serial" | "init": which PMS5003Serial class runs
    dedupe,       \* read()'s argument
    warmup,       \* read()'s argument
    wire,         \* bytes the source holds, not yet read
    sent,         \* history: the chunks the sensor wrote, in order
    consumed,     \* history: the bytes read so far, in order
    now,          \* the clock, time.time()
    pc,           \* "new" | "seek" | "payload" | "yielded" | "raised"
    phase,        \* "warmup" | "main": which loop of read() runs
    idx,          \* _read_start's position in _START_SEQUENCE
    timestamp,    \* try_read_one's local
    ts,           \* read()'s local
    previous,     \* read()'s local
    start_time,   \* read()'s local (bound only when warmup > 0)
    warmup_time,  \* read()'s local (bound only when warmup > 0)
    exc,          \* the exception that ended the generator, or "none"
    emitted,      \* history: what the consumer received, in order
    log,          \* history: what read_one returned, in order
    lastDone,     \* history: the clock when the last payload read completed
    repertoire,   \* scenario: the chunks the sensor may write
    budget,       \* scenario: how many chunks it writes at most
    horizon,      \* scenario: how far the clock runs
    cur,          \* which stream the variables above describe (1 or 2)
    other         \* <<>>, or the suspended second stream's state in a
                  \* one-element sequence

vars == <<module, dedupe, warmup, wire, sent, consumed, now, pc, phase, idx,
          timestamp, ts, previous, start_time, warmup_time, exc, emitted, log,
          lastDone, repertoire, budget, horizon, cur, other>>

config == <<module, dedupe, warmup, repertoire, budget, horizon>>
locals == <<idx, timestamp, ts, previous, start_time, warmup_time, phase>>
source == <<wire, sent, consumed>>
peers == <<cur, other>>

\* The state before read() is first pulled, for a sensor that writes at most
\* n of `chunks`, a clock that runs to h and a warmup argument in warmups.
InitStream(chunks, n, h, warmups) ==
    /\ repertoire = chunks
    /\ budget = n
    /\ horizon = h
    /\ lastDone = 0
    /\ module \in {"serial", "init"}
    /\ dedupe \in BOOLEAN
    /\ warmup \in warmups
    /\ wire = <<>>
    /\ sent = <<>>
    /\ consumed = <<>>
    /\ now = 0
    /\ pc = "new"
    /\ phase = "main"
    /\ idx = 0
    /\ timestamp = 0
    /\ ts = 0
    /\ previous = None
    /\ start_time = 0
    /\ warmup_time = 0
    /\ exc = "none"
    /\ emitted = <<>>
    /\ log = <<>>

\* One stream alone.
InitScenario(chunks, n, h, warmups) ==
    /\ InitStream(chunks, n, h, warmups)
    /\ cur = 1
    /\ other = <<>>

InitWith(chunks, n, h) == InitScenario(chunks, n, h, 0..MaxWarmup)

Init == InitWith(Chunks, MaxChunks, MaxClock)

\* Runs with warmup <= 0 only (negative and zero).
InitNoWarmup == InitScenario(Chunks, MaxChunks, MaxClock, {-1, 0})

\* A run in which the sensor writes valid frames only.
InitFrames == InitWith(ValidFrames, MaxFrames, MaxWarmup)

\* The consumer's first pull: read() runs up to its first await.
Start ==
    /\ pc = "new"
    /\ pc' = "seek"
    /\ previous' = None
    /\ idx' = 0
    /\ IF warmup > 0
       THEN /\ start_time' = now
            /\ warmup_time' = now + warmup
            /\ ts' = now
            /\ phase' = IF InWarmup(now, now + warmup) THEN "warmup" ELSE "main"
       ELSE /\ phase' = "main"
            /\ UNCHANGED <<start_time, warmup_time, ts>>
    /\ UNCHANGED <<config, peers, source, now, timestamp, exc, emitted, log, lastDone>>

\* One iteration of _read_start's loop: read_async(1) returns a byte.  On a
\* mismatch _read_start returns False, try_read_one returns None and
\* read_one calls try_read_one again, which starts _read_start afresh.  On
\* the fourth match try_read_one reads the clock.
ReadStartByte ==
    /\ pc = "seek"
    /\ wire # <<>>
    /\ wire' = Tail(wire)
    /\ consumed' = Append(consumed, Head(wire))
    /\ IF ~Matches(Head(wire), idx)
       THEN idx' = 0 /\ UNCHANGED <<pc, timestamp>>
       ELSE IF idx < Len(START_SEQUENCE) - 1
            THEN idx' = idx + 1 /\ UNCHANGED <<pc, timestamp>>
            ELSE idx' = 0 /\ pc' = "payload" /\ timestamp' = now
    /\ UNCHANGED <<config, peers, sent, now, phase, ts, previous, start_time,
                   warmup_time, exc, emitted, log, lastDone>>

\* read_async(_FRAME_LENGTH) returns the payload; try_read_one parses it and
\* returns (timestamp, item); read_one returns it (a tuple is truthy); read()
\* then runs up to its next await: the warmup loop keeps the item as
\* `previous` and tests its condition again, the main loop drops or yields.
\* A TypeError raised by the constructor call inside _parse passes through
\* try_read_one, read_one and read() and ends the generator.
ReadPayload ==
    /\ pc = "payload"
    /\ Len(wire) >= FRAME_LENGTH
    /\ LET frame == SubSeq(wire, 1, FRAME_LENGTH)
           end   == Len(consumed) + FRAME_LENGTH
           item  == Parse(module, frame, end)
           t     == Stamp(timestamp, now)
           entry == [ts |-> t, item |-> item, phase |-> phase, end |-> end]
       IN  /\ wire' = Remaining(wire, FRAME_LENGTH)
           /\ consumed' = consumed \o frame
           /\ lastDone' = now
           /\ IF item.kind = "TypeError"
              THEN /\ pc' = "raised"
                   /\ exc' = "TypeError"
                   /\ UNCHANGED <<ts, previous, phase, emitted, log>>
              ELSE /\ log' = Append(log, entry)
                   /\ ts' = t
                   /\ exc' = exc
                   /\ IF phase = "warmup"
                      THEN /\ previous' = WarmupPrevious(item, previous)
                           /\ phase' = IF InWarmup(t, warmup_time)
                                       THEN "warmup" ELSE "main"
                           /\ pc' = "seek"
                           /\ emitted' = emitted
                      ELSE IF Suppress(dedupe, item, previous)
                           THEN /\ pc' = "seek"
                                /\ UNCHANGED <<previous, phase, emitted>>
                           ELSE /\ previous' = item
                                /\ emitted' = Append(emitted, Yielded(t, item, previous))
                                /\ pc' = "yielded"
                                /\ phase' = phase
    /\ UNCHANGED <<config, peers, sent, now, idx, timestamp, start_time, warmup_time>>

\* The consumer asks for the next item: read() resumes after its yield.
Pull ==
    /\ pc = "yielded"
    /\ pc' = "seek"
    /\ UNCHANGED <<config, peers, source, now, locals, exc, emitted, log, lastDone>>

\* The clock advances (non-decreasing).
Tick ==
    /\ now < horizon
    /\ now' = now + 1
    /\ UNCHANGED <<config, peers, source, pc, locals, exc, emitted, log, lastDone>>

\* The pending read_async raises (the port failed or was closed).
Fail ==
    /\ pc \in {"seek", "payload"}
    /\ exc = "none"
    /\ pc' = OnSourceError
    /\ exc' = "SerialException"
    /\ UNCHANGED <<config, peers, source, now, locals, emitted, log, lastDone>>

\* The sensor writes a chunk while the reader waits for bytes.
Send(c) ==
    /\ c \in repertoire
    /\ Len(sent) < budget
    /\ IF pc = "seek" THEN wire = <<>>
       ELSE pc = "payload" /\ Len(wire) < FRAME_LENGTH
    /\ wire' = wire \o c
    /\ sent' = Append(sent, c)
    /\ UNCHANGED <<config, peers, consumed, now, pc, locals, exc, emitted, log, lastDone>>

Next ==
    \/ Start
    \/ ReadStartByte
    \/ ReadPayload
    \/ Pull
    \/ Tick
    \/ Fail
    \/ \E c \in Chunks : Send(c)

Spec == Init /\ [][Next]_vars

\* ------------------------------------------------------------ two streams

\* Everything that belongs to one PMS5003Serial instance and one read()
\* invocation on it: its arguments, its byte source, the generator's
\* position and locals, and what its consumer received.
Context ==
    [dedupe |-> dedupe, warmup |-> warmup, wire |-> wire, sent |-> sent,
     consumed |-> consumed, pc |-> pc, phase |-> phase, idx |-> idx,
     timestamp |-> timestamp, ts |-> ts, previous |-> previous,
     start_time |-> start_time, warmup_time |-> warmup_time, exc |-> exc,
     emitted |-> emitted, log |-> log, lastDone |-> lastDone]

\* A second instance whose read(dd, w) has not been pulled yet.
NewContext(dd, w) ==
    [dedupe |-> dd, warmup |-> w, wire |-> <<>>, sent |-> <<>>,
     consumed |-> <<>>, pc |-> "new", phase |-> "main", idx |-> 0,
     timestamp |-> 0, ts |-> 0, previous |-> None,
     start_time |-> 0, warmup_time |-> 0, exc |-> "none",
     emitted |-> <<>>, log |-> <<>>, lastDone |-> 0]

\* Mutant: the value is kept in one place for all streams (a class
\* attribute or a module global), so a switch leaves it as it is.
SharedAfterSwitch(running, saved) == running

\* A local of read(): each generator has its own, so after a switch the
\* value seen is the one the resumed generator saved.
LocalAfterSwitch(running, saved) == saved

\* The event loop runs the other stream.  A stream's steps read and write
\* its own context and read the clock, which advances at any time, so it
\* is enough to switch where the running stream cannot go on by itself: it
\* awaits bytes that have not arrived, it has yielded, ended or not begun.
Switch ==
    /\ other # <<>>
    /\ IF pc = "seek" THEN wire = <<>>
       ELSE IF pc = "payload" THEN Len(wire) < FRAME_LENGTH
       ELSE TRUE
    /\ other' = <<Context>>
    /\ cur' = 3 - cur
    /\ dedupe' = other[1].dedupe
    /\ warmup' = other[1].warmup
    /\ wire' = other[1].wire
    /\ sent' = other[1].sent
    /\ consumed' = other[1].consumed
    /\ pc' = other[1].pc
    /\ phase' = other[1].phase
    /\ idx' = other[1].idx
    /\ timestamp' = other[1].timestamp
    /\ ts' = other[1].ts
    /\ previous' = LocalAfterSwitch(previous, other[1].previous)
    /\ start_time' = other[1].start_time
    /\ warmup_time' = LocalAfterSwitch(warmup_time, other[1].warmup_time)
    /\ exc' = other[1].exc
    /\ emitted' = other[1].emitted
    /\ log' = other[1].log
    /\ lastDone' = other[1].lastDone
    /\ UNCHANGED <<module, now, repertoire, budget, horizon>>

\* Two instances over two byte sources that do not fail, each sensor
\* writing valid frames.
InitTwo ==
    /\ InitStream(ValidFrames, MaxPairFrames, MaxClock, {0, MaxWarmup})
    /\ cur = 1
    /\ other \in {<<NewContext(dd, w)>> : dd \in BOOLEAN, w \in {0, MaxWarmup}}

NextTwo ==
    \/ Start
    \/ ReadStartByte
    \/ ReadPayload
    \/ Pull
    \/ Tick
    \/ \E c \in ValidFrames : Send(c)
    \/ Switch

SpecTwo == InitTwo /\ [][NextTwo]_vars

SpecFrames == InitFrames /\ [][Next]_vars

\* read_async(_FRAME_LENGTH) returns fewer bytes than asked for (the port
\* has a read timeout and it expired): struct.unpack raises struct.error on
\* a buffer that is not 28 bytes long; nothing catches it, so it ends the
\* generator.
ShortPayload ==
    /\ pc = "payload"
    /\ Len(wire) < FRAME_LENGTH
    /\ exc = "none"
    /\ wire' = <<>>
    /\ consumed' = consumed \o wire
    /\ lastDone' = now
    /\ pc' = "raised"
    /\ exc' = "struct.error"
    /\ UNCHANGED <<config, peers, sent, now, locals, emitted, log>>

\* read_async(1) returns no byte (the read timeout expired): ord(b'')
\* raises TypeError, which ends the generator.
ReadStartTimeout ==
    /\ pc = "seek"
    /\ wire = <<>>
    /\ exc = "none"
    /\ pc' = "raised"
    /\ exc' = "TypeError"
    /\ UNCHANGED <<config, peers, source, now, locals, emitted, log, lastDone>>

\* A run over a port opened with a read timeout, on a line that may cut a
\* frame off.
InitShort == InitScenario(ShortChunks, MaxShortChunks, MaxClock, 0..MaxWarmup)

NextShort ==
    \/ Start
    \/ ReadStartByte
    \/ ReadPayload
    \/ ShortPayload
    \/ ReadStartTimeout
    \/ Pull
    \/ Tick
    \/ Fail
    \/ \E c \in ShortChunks : Send(c)

SpecShort == InitShort /\ [][NextShort]_vars

\* A run without warmup, on a clock that stands still, over marker bytes
\* and frames in any arrangement.
InitSync == InitScenario(SyncChunks, MaxSyncChunks, 0, {0})

NextSync ==
    \/ Start
    \/ ReadStartByte
    \/ ReadPayload
    \/ Pull
    \/ Fail
    \/ \E c \in SyncChunks : Send(c)

SpecSync == InitSync /\ [][NextSync]_vars

\* The sensor writes a frame at any time, whether or not the reader waits
\* for bytes: the line buffers what has not been read.
SendAhead(c) ==
    /\ c \in repertoire
    /\ Len(sent) < budget
    /\ wire' = wire \o c
    /\ sent' = Append(sent, c)
    /\ UNCHANGED <<config, peers, consumed, now, pc, locals, exc, emitted, log, lastDone>>

\* A run without warmup, on a clock that stands still, in which frames pile
\* up on the line ahead of the reader.
InitAhead == InitScenario(AheadFrames, MaxAheadFrames, 0, {0})

NextAhead ==
    \/ Start
    \/ ReadStartByte
    \/ ReadPayload
    \/ Pull
    \/ Fail
    \/ \E c \in AheadFrames : SendAhead(c)

SpecAhead == InitAhead /\ [][NextAhead]_vars

\* A run over one frame whose payload may carry any declared checksum.
InitProbe == InitScenario(ProbeFrames, 1, MaxClock, 0..MaxWarmup)

NextProbe ==
    \/ Start
    \/ ReadStartByte
    \/ ReadPayload
    \/ Pull
    \/ Tick
    \/ \E c \in ProbeFrames : Send(c)

SpecProbe == InitProbe /\ [][NextProbe]_vars

SpecNoWarmup == InitNoWarmup /\ [][Next]_vars

\* ------------------------------------------------------- history helpers

Last(s) == s[Len(s)]

\* The items of a sequence of (timestamp, item) pairs.
Items(es) == [i \in DOMAIN es |-> es[i][2]]

\* What read_one returned, as (timestamp, item) pairs.
Pairs(entries) == [i \in DOMAIN entries |-> <<entries[i].ts, entries[i].item>>]

IsMain(e) == e.phase = "main"
IsWarmup(e) == e.phase = "warmup"

\* What read_one returned to the main loop, and to the warmup loop.
PostEntries == SelectSeq(log, IsMain)
WarmupEntries == SelectSeq(log, IsWarmup)

\* The 28 payload bytes a log entry was parsed from.
PayloadAt(e) == SubSeq(consumed, e.end - FRAME_LENGTH + 1, e.end)

\* The measurement with the fields fs.
Measurement(fs) == Item("Measurement", fs, 0)

\* Every byte the sensor wrote has been read and the reader waits for more.
Drained == wire = <<>> /\ pc = "seek"

\* -------------------------------------------------------------------- C1

\* C1: every item read() yields carries a Measurement decoded from a payload
\* whose declared checksum matched the computed one; a frame whose checksum
\* does not match never produces a yielded item.  (Stated at the moment of
\* each yield, for the frame just read.)
C1_OnlyChecksummedMeasurementsYielded ==
    pc = "yielded" =>
        /\ Last(emitted)[2].kind = "Measurement"
        /\ ChecksumOk(PayloadAt(Last(log)))
        /\ Last(emitted)[2].fields = SubSeq(Unpack(PayloadAt(Last(log))), 1, NumFields)

\* -------------------------------------------------------------------- C2

\* C2: for the byte stream V1, corrupted frame, V2 (V1 # V2, warmup <= 0),
\* read() emits exactly the measurement of V1 and then that of V2 and is
\* not ended by the corrupted frame.  (Stated once the three frames have
\* been read, or the generator has ended for a reason other than the
\* source; V1 = the frame of MA, V2 = the frame of MB.)
C2_CorruptedFrameSandwich ==
    ( /\ warmup <= 0
      /\ sent = <<FrameOf(MA), BadFrameOf(MA), FrameOf(MB)>>
      /\ wire = <<>>
      /\ pc \in {"seek", "raised"}
      /\ exc # "SerialException" )
    => /\ pc = "seek"
       /\ Items(emitted) = <<Measurement(MA), Measurement(MB)>>

\* -------------------------------------------------------------------- C3

\* The sensor wrote N noise bytes and then one valid frame, nothing else.
NoiseThenFrame ==
    /\ sent # <<>>
    /\ Last(sent) \in ValidFrames
    /\ \A i \in 1..(Len(sent) - 1) : sent[i] \in Noise

\* C3: N noise bytes without the full marker (possibly ending in a proper
\* prefix of it), then one valid frame, warmup <= 0: once the N + 32 bytes
\* are read the stream has emitted the frame's measurement, on reading byte
\* N + 32.  (Stated for the class of __init__.py, whose _parse accepts a
\* valid frame.)
C3_ResyncAfterNoise ==
    ( /\ module = "init"
      /\ warmup <= 0
      /\ NoiseThenFrame
      /\ wire = <<>>
      /\ exc = "none" )
    => /\ Len(emitted) = 1
       /\ emitted[1][2] = Measurement(SubSeq(Unpack(PayloadAt(Last(log))), 1, NumFields))
       /\ FrameOf(emitted[1][2].fields) = Last(sent)
       /\ Last(log).end = Len(sent) - 1 + Len(START_SEQUENCE) + FRAME_LENGTH

\* -------------------------------------------------------------------- C4

RECURSIVE IsSubseq(_, _)
\* a is b with some elements left out, the order kept.
IsSubseq(a, b) ==
    IF a = <<>> THEN TRUE
    ELSE IF b = <<>> THEN FALSE
    ELSE IF Head(a) = Head(b) THEN IsSubseq(Tail(a), Tail(b))
    ELSE IsSubseq(a, Tail(b))

\* C4: with warmup = W > 0 and start the clock read when streaming begins,
\* nothing is emitted while the clock is below start + W, every emitted
\* item has a timestamp >= start + W, and every frame decoded with an
\* earlier timestamp was read in full (marker and 28 payload bytes) and was
\* not emitted.
C4_WarmupSuppression ==
    (warmup > 0 /\ pc # "new") =>
        /\ \A i \in DOMAIN emitted : emitted[i][1] >= start_time + warmup
        /\ (emitted # <<>> => now >= start_time + warmup)
        /\ IsSubseq(emitted, Pairs(PostEntries))
        /\ \A j \in DOMAIN log :
              log[j].ts < start_time + warmup =>
                  /\ log[j].phase = "warmup"
                  /\ log[j].end <= Len(consumed)
                  /\ SubSeq(consumed, log[j].end - FRAME_LENGTH - Len(START_SEQUENCE) + 1,
                            log[j].end - FRAME_LENGTH) = START_SEQUENCE

\* A measurement is emitted after a warmup in which a frame decoded before
\* the deadline was consumed.
C4_Witness ==
    /\ warmup > 0
    /\ emitted # <<>>
    /\ Last(emitted)[2].kind = "Measurement"
    /\ \E j \in DOMAIN log :
          log[j].ts < start_time + warmup /\ log[j].item.kind = "Measurement"

\* -------------------------------------------------------------------- C5

RECURSIVE Collapse(_)
\* A sequence of log entries with every maximal run of consecutive entries
\* carrying equal items collapsed to the first entry of the run.
Collapse(es) ==
    IF Len(es) <= 1 THEN es
    ELSE IF es[1].item = es[2].item
         THEN Collapse(<<es[1]>> \o SubSeq(es, 3, Len(es)))
         ELSE <<es[1]>> \o Collapse(Tail(es))

\* C5 as stated: with dedupe enabled, the emitted sequence is the
\* post-warmup decoded sequence with every maximal run of consecutive equal
\* measurements collapsed to its first element.
C5_EmittedIsCollapsedPostWarmup ==
    dedupe => emitted = Pairs(Collapse(PostEntries))

\* C5 amended: with dedupe enabled, the emitted sequence is the sequence of
\* values read_one returned after warmup with every maximal run of
\* consecutive equal values collapsed to its first element, where the first
\* run counts as started by the last value consumed during warmup, if any:
\* a leading run equal to that value is dropped whole.  No two consecutive
\* emitted values are equal.
C5_EmittedIsCollapsedAfterLastWarmup ==
    dedupe =>
        /\ emitted =
              IF WarmupEntries = <<>>
              THEN Pairs(Collapse(PostEntries))
              ELSE Pairs(Tail(Collapse(<<Last(WarmupEntries)>> \o PostEntries)))
        /\ \A i \in 1..(Len(emitted) - 1) : emitted[i][2] # emitted[i + 1][2]

\* With dedupe, the readings A, A, B after warmup have been emitted as A, B.
C5_Witness ==
    /\ dedupe
    /\ Items(Pairs(PostEntries)) = <<Measurement(MA), Measurement(MA), Measurement(MB)>>
    /\ Items(emitted) = <<Measurement(MA), Measurement(MB)>>

\* -------------------------------------------------------------------- C6

\* C6: with dedupe disabled, every value read_one returns after the warmup
\* phase is emitted exactly once, equal neighbours included: the emitted
\* sequence equals the post-warmup sequence, element for element.
C6_NoDedupeEmitsAll ==
    ~dedupe => emitted = Pairs(PostEntries)

\* With dedupe disabled the frames A, A, A, B, B, A have been emitted as
\* six items in that order.
C6_Witness ==
    /\ ~dedupe
    /\ Items(emitted) = <<Measurement(MA), Measurement(MA), Measurement(MA),
                          Measurement(MB), Measurement(MB), Measurement(MA)>>

\* -------------------------------------------------------------------- C7

\* C7: for every 13-tuple of field values, decoding the 28 bytes after the
\* marker of its frame succeeds and yields a Measurement whose 13 fields
\* equal the tuple, `reserved` included.  (Stated for the first frame the
\* sensor writes, once its 32 bytes have been read; the tuples are those of
\* Measurements, MA being the spec's example.)
C7_RoundTrip ==
    \A fs \in Measurements :
        (sent # <<>> /\ sent[1] = FrameOf(fs) /\ Len(consumed) >= Len(FrameOf(fs))) =>
            /\ exc # "TypeError"
            /\ log # <<>>
            /\ log[1].item = Measurement(fs)
            /\ log[1].item.fields[2] = fs[2]

\* -------------------------------------------------------------------- C8

\* C8: once a read has failed, the error has ended the generator: nothing
\* further is emitted, no further byte is read, and no read is retried.
C8_SourceFailureIsTerminal ==
    [][exc = "SerialException" =>
          /\ pc = "raised"
          /\ pc' = "raised"
          /\ exc' = exc
          /\ emitted' = emitted
          /\ consumed' = consumed
          /\ wire' = wire
          /\ log' = log]_vars

\* The source failed after an item was emitted, in the middle of a marker
\* whose remaining bytes the source still holds, and the clock went on.
C8_Witness ==
    /\ exc = "SerialException"
    /\ emitted # <<>>
    /\ wire # <<>>
    /\ idx > 0
    /\ now > lastDone

\* -------------------------------------------------------------------- C9

\* C9: the emitted sequence is a subsequence, in order, of what was decoded
\* from the byte stream, and each item is emitted on the read of its own
\* last payload byte, before any byte of a later frame is read.
C9_ArrivalOrder ==
    /\ IsSubseq(emitted, Pairs(log))
    /\ pc = "yielded" =>
          /\ Last(emitted) = <<Last(log).ts, Last(log).item>>
          /\ Last(log).end = Len(consumed)

\* Two measurements have been emitted, a third decoded one was left out,
\* and the second emission is the frame just read.
C9_Witness ==
    /\ pc = "yielded"
    /\ Len(emitted) = 2
    /\ Len(log) = 3
    /\ emitted[1][2].kind = "Measurement"
    /\ emitted[1][2] # emitted[2][2]

\* ------------------------------------------------------------------- C10

FirstMeasurementIndex ==
    IF \E j \in DOMAIN log : log[j].item.kind = "Measurement"
    THEN CHOOSE j \in DOMAIN log :
            /\ log[j].item.kind = "Measurement"
            /\ \A k \in 1..(j - 1) : log[k].item.kind # "Measurement"
    ELSE 0

\* C11: with warmup <= 0 there is no warmup phase: every value read_one
\* returns goes through the emit policy of the main loop (none is consumed
\* by a warmup loop), `previous` starts as None, and the first validly
\* decoded measurement of the stream is emitted, with or without dedupe.
C11_NoWarmupPhase ==
    warmup <= 0 =>
        /\ phase = "main"
        /\ WarmupEntries = <<>>
        /\ (log = <<>> /\ pc # "new") => previous = None
        /\ FirstMeasurementIndex > 0 =>
              /\ Len(emitted) >= FirstMeasurementIndex
              /\ emitted[FirstMeasurementIndex] =
                    <<log[FirstMeasurementIndex].ts, log[FirstMeasurementIndex].item>>

\* With dedupe on and a negative warmup, the first valid measurement came
\* second in the stream (after a corrupted frame) and was emitted.
C11_Witness ==
    /\ warmup < 0
    /\ dedupe
    /\ Len(log) >= 2
    /\ log[1].item.kind = "DataError"
    /\ log[2].item.kind = "Measurement"
    /\ Len(emitted) >= 2
    /\ emitted[2][2] = log[2].item

\* ------------------------------------------------------------------- C12

RECURSIVE WarmupLen(_, _, _)
\* How many of the values read_one returns a lone read() consumes in its
\* warmup loop, given the last timestamp t and the deadline.
WarmupLen(entries, t, deadline) ==
    IF entries = <<>> \/ ~(t < deadline) THEN 0
    ELSE 1 + WarmupLen(Tail(entries), Head(entries).ts, deadline)

RECURSIVE MainEmitted(_, _, _)
\* What a lone read() yields in its main loop for the values read_one
\* returns, starting from the previous value prev.
MainEmitted(entries, prev, dd) ==
    IF entries = <<>> THEN <<>>
    ELSE IF dd /\ Head(entries).item = prev
         THEN MainEmitted(Tail(entries), prev, dd)
         ELSE <<<<Head(entries).ts, Head(entries).item>>>>
              \o MainEmitted(Tail(entries), Head(entries).item, dd)

\* What a read(dd, w) running alone, begun at clock value start, yields for
\* the values read_one returns.
AloneEmitted(entries, dd, w, start) ==
    LET k == IF w > 0 THEN WarmupLen(entries, start, start + w) ELSE 0
    IN  MainEmitted(SubSeq(entries, k + 1, Len(entries)),
                    IF k = 0 THEN None ELSE entries[k].item, dd)

\* The stream described by context c emitted what it would have emitted
\* alone over its own byte source, and decoded its own bytes only.
AsAlone(c) ==
    /\ c.emitted = AloneEmitted(c.log, c.dedupe, c.warmup, c.start_time)
    /\ \A j \in DOMAIN c.log :
          c.log[j].item = Parse(module,
                                SubSeq(c.consumed, c.log[j].end - FRAME_LENGTH + 1,
                                       c.log[j].end),
                                c.log[j].end)
    /\ c.pc = "new" => (c.emitted = <<>> /\ c.previous = None)
    /\ (c.pc # "new" /\ c.warmup > 0) => c.warmup_time = c.start_time + c.warmup

\* C12: two streams over independent byte sources, their steps interleaved
\* in any order, each emit what they would emit alone: `previous` and the
\* warmup deadline belong to each read() invocation, which starts with no
\* previous measurement and a deadline from its own clock read.
C12_StreamsIndependent ==
    /\ AsAlone(Context)
    /\ other # <<>> => AsAlone(other[1])

\* Both streams run with dedupe and without warmup, both have read the same
\* reading and both have emitted it, the second stream after the first.
C12_Witness ==
    /\ other # <<>>
    /\ cur = 2
    /\ dedupe
    /\ other[1].dedupe
    /\ warmup = 0
    /\ other[1].warmup = 0
    /\ emitted # <<>>
    /\ other[1].emitted # <<>>
    /\ emitted[1][2].kind = "Measurement"
    /\ emitted[1][2] = other[1].emitted[1][2]

\* C13: the stream reaches a terminal state only when the byte source
\* fails; no decode outcome ends the sequence.
C13_TerminalOnlyOnSourceFailure ==
    pc = "raised" => exc = "SerialException"

\* -------------------------------------------------------------------- C14

\* The byte positions at which a payload read ended and _parse ran.
DecodedEnds ==
    {log[j].end : j \in DOMAIN log}
    \cup (IF exc = "TypeError" THEN {Len(consumed)} ELSE {})

\* _parse did not take its checksum-mismatch branch for the payload that
\* ended at byte position e: it went on to build the measurement.
AcceptedAt(e) ==
    \/ exc = "TypeError" /\ e = Len(consumed)
    \/ \E j \in DOMAIN log : log[j].end = e /\ log[j].item.kind = "Measurement"

\* The last two bytes of the payload, big-endian, equal the sum of the four
\* marker bytes and the first 26 payload bytes modulo 65536.
DeclaredIsSumMod(payload) ==
    payload[27] * 256 + payload[28]
        = (66 + 77 + 0 + 28 + Sum(SubSeq(payload, 1, 26))) % 65536

\* C14: a 28-byte payload is accepted iff its last two bytes, big-endian,
\* equal (0x42 + 0x4D + 0x00 + 0x1C + sum of its first 26 bytes) mod 65536;
\* the sum of those 30 bytes is below 65536, so the code's sum without a
\* modulus decides the same.
C14_ChecksumDecision ==
    \A e \in DecodedEnds :
        LET payload == SubSeq(consumed, e - FRAME_LENGTH + 1, e)
        IN  /\ AcceptedAt(e) <=> DeclaredIsSumMod(payload)
            /\ Sum(START_SEQUENCE \o SubSeq(payload, 1, 26)) < 65536

\* The payload of all 0xFF data bytes with its right checksum was accepted,
\* and so was decoded into a measurement or handed to the constructor.
C14_Witness ==
    \E e \in DecodedEnds :
        /\ AcceptedAt(e)
        /\ \A i \in 1..26 : consumed[e - FRAME_LENGTH + i] = 255

\* -------------------------------------------------------------------- C15

\* C15: a byte that mismatches after k >= 1 matched marker bytes is itself
\* tried against marker position 0, so once the bytes 0x42 0x42 0x4D 0x00
\* 0x1C have been read the synchronizer has reported a match at the last of
\* them and the payload read has begun.
C15_MismatchRestartsScan ==
    (consumed = <<66>> \o START_SEQUENCE /\ exc = "none") => pc = "payload"

\* -------------------------------------------------------------------- C16

\* The timestamp the warmup loop's condition saw before read_one returned
\* log entry j: that of the entry before it, or the clock read at the start.
TsBefore(j) == IF j = 1 THEN start_time ELSE log[j - 1].ts

\* C16 as stated: every value decoded with a timestamp at or after
\* start + warmup is handled by the post-warmup policy, none is consumed as
\* a warmup frame, and with dedupe disabled each of them is emitted.
C16_DeadlineValuesPostWarmup ==
    (warmup > 0 /\ pc # "new") =>
        /\ \A j \in DOMAIN log :
              log[j].ts >= start_time + warmup => log[j].phase = "main"
        /\ ~dedupe => emitted = Pairs(PostEntries)

\* C16 amended: the warmup loop tests ts < start + warmup before each read,
\* with the timestamp of the value read before (the clock read at the start
\* for the first).  A value is consumed as a warmup frame iff that earlier
\* timestamp is below the deadline; so the first value timestamped at or
\* after the deadline is the last warmup frame and is not emitted, at most
\* one warmup frame carries such a timestamp, and every value read after it
\* is handled by the post-warmup policy: with dedupe disabled, emitted.
C16_WarmupEndsAfterDeadlineValue ==
    (warmup > 0 /\ pc # "new") =>
        /\ \A j \in DOMAIN log :
              log[j].phase = "warmup" <=> TsBefore(j) < start_time + warmup
        /\ \A j, k \in DOMAIN log :
              ( /\ log[j].phase = "warmup" /\ log[j].ts >= start_time + warmup
                /\ log[k].phase = "warmup" /\ log[k].ts >= start_time + warmup )
              => j = k
        /\ ~dedupe => emitted = Pairs(PostEntries)

\* Without dedupe, a measurement stamped at the deadline was consumed as the
\* last warmup frame and the measurement read after it was emitted.
C16_Witness ==
    /\ warmup > 0
    /\ ~dedupe
    /\ Len(log) >= 2
    /\ log[Len(log) - 1].phase = "warmup"
    /\ log[Len(log) - 1].ts >= start_time + warmup
    /\ log[Len(log) - 1].item.kind = "Measurement"
    /\ Last(log).phase = "main"
    /\ emitted = <<<<Last(log).ts, Last(log).item>>>>

\* -------------------------------------------------------------------- C17

\* C17: with dedupe and warmup > 0, when the post-warmup phase begins the
\* previous-measurement reference is the last value consumed during warmup;
\* the first post-warmup value is suppressed iff it equals that value; and
\* after every emit the reference is the value just emitted.
C17_PreviousReference ==
    (dedupe /\ warmup > 0 /\ phase = "main" /\ pc # "new") =>
        /\ WarmupEntries # <<>>
        /\ PostEntries = <<>> => previous = Last(WarmupEntries).item
        /\ PostEntries # <<>> =>
              ( PostEntries[1].item = Last(WarmupEntries).item
                <=> ~(emitted # <<>> /\ emitted[1] = Pairs(PostEntries)[1]) )
        /\ emitted # <<>> => previous = Last(emitted)[2]

\* After a warmup that ended on a reading, the same reading came first and
\* was suppressed, then a different one was emitted and is the reference.
C17_Witness ==
    /\ dedupe
    /\ warmup > 0
    /\ pc = "yielded"
    /\ Len(PostEntries) = 2
    /\ Last(WarmupEntries).item.kind = "Measurement"
    /\ PostEntries[1].item = Last(WarmupEntries).item
    /\ emitted = <<<<PostEntries[2].ts, PostEntries[2].item>>>>
    /\ previous = PostEntries[2].item

\* -------------------------------------------------------------------- C18

\* A payload read returned fewer than 28 bytes without the source failing.
ShortPayloadReturned ==
    /\ pc = "payload"
    /\ pc' # "payload"
    /\ Len(consumed') < Len(consumed) + FRAME_LENGTH
    /\ exc' # "SerialException"

\* C18: a payload read that returns fewer than 28 bytes is not decoded and
\* not emitted, and while the source is open the short payload is discarded
\* and the stream goes back to seeking the marker without ending.
C18_ShortPayloadDiscarded ==
    [][ShortPayloadReturned =>
          /\ emitted' = emitted
          /\ log' = log
          /\ pc' = "seek"
          /\ exc' = "none"]_vars

\* -------------------------------------------------------------------- C19

\* The four bytes consumed up to position e are the marker.
MarkerEndsAt(e) ==
    /\ e >= Len(START_SEQUENCE)
    /\ SubSeq(consumed, e - Len(START_SEQUENCE) + 1, e) = START_SEQUENCE

RECURSIVE Flatten(_)
\* The bytes of a sequence of chunks, in order.
Flatten(cs) == IF cs = <<>> THEN <<>> ELSE Head(cs) \o Flatten(Tail(cs))

\* C20: after a marker match exactly 28 further bytes are consumed, whatever
\* the checksum outcome, and the next marker scan starts at the byte right
\* after them; when an item is emitted, the last 32 bytes consumed are the
\* marker and the payload of the emitted frame, and no later byte has been
\* consumed: what is left on the line is everything the sensor wrote after
\* that frame.
C20_ExactPayloadConsumed ==
    /\ Flatten(sent) = consumed \o wire
    /\ \A j \in DOMAIN log :
          /\ log[j].end <= Len(consumed)
          /\ MarkerEndsAt(log[j].end - FRAME_LENGTH)
          /\ j > 1 => log[j].end >= log[j - 1].end + Len(START_SEQUENCE) + FRAME_LENGTH
    /\ (log # <<>> /\ pc = "seek") => Len(consumed) - idx >= Last(log).end
    /\ pc = "yielded" =>
          /\ idx = 0
          /\ Last(log).end = Len(consumed)
          /\ Last(emitted) = <<Last(log).ts, Last(log).item>>
          /\ SubSeq(consumed, Len(consumed) - FRAME_LENGTH - Len(START_SEQUENCE) + 1,
                    Len(consumed))
                = START_SEQUENCE \o PayloadAt(Last(log))

\* A measurement has just been emitted after a checksum-failed frame was
\* read, and a later frame waits on the line untouched.
C20_Witness ==
    /\ pc = "yielded"
    /\ Last(emitted)[2].kind = "Measurement"
    /\ Len(log) >= 2
    /\ log[Len(log) - 1].item.kind = "DataError"
    /\ wire \in ValidFrames

=============================================================================
